---- MODULE Spec2Model ----
(***************************************************************************)
(* The interactive pagination / selection loop of the marketplace search   *)
(* command (two1/commands/search.py): _search, get_search_results,         *)
(* market_search_formatter, get_next_page and display_search_info.         *)
(*                                                                         *)
(* Text is modelled as a sequence of one-character strings, so that        *)
(* str.lower() and int() are computed character by character.  The remote  *)
(* service is the environment: every endpoint call draws its response      *)
(* from the set of responses the service can send.                         *)
(***************************************************************************)
EXTENDS Integers, Sequences, FiniteSets, TLC

VARIABLES
    pc,                  \* position in _search: "start", "prompt", "done", "failed"
    search_string,       \* the command's argument (None when absent)
    current_page,        \* _search local
    total_pages,         \* _search local
    row_id_to_model_id,  \* _search local dict, a function row number -> listing id
    prompt_resp,         \* the text click.prompt returned in the last iteration
    returned,            \* what the last call of get_search_results returned, or NoReturn
    results_len,         \* number of summaries in the last ok search response, or NoReturn
    last_call,           \* the endpoint call made by the last step and how it ended
    content,             \* rows of the table most recently rendered
    output,              \* what the last step wrote to the console
    search_req,          \* the last search request sent: query and page
    detail_req,          \* the listing id of the last detail request sent
    searches,            \* number of search requests sent
    details,             \* number of detail requests sent
    prompts              \* number of prompts answered (or interrupted)

vars == <<pc, search_string, current_page, total_pages, row_id_to_model_id,
          prompt_resp, returned, results_len, last_call, content, output,
          search_req, detail_req, searches, details, prompts>>

-----------------------------------------------------------------------------
(* Bounds *)

MaxResults == 25      \* the service holds at most this many listings
MaxPrompts == 3       \* prompts answered in one session

(* Program constant *)
MAX_PAGE_SIZE == 10

-----------------------------------------------------------------------------
(* Values *)

None == "None"                 \* Python's None, for an absent search_string
NoResp == [ok |-> FALSE, results_is_null |-> TRUE, results |-> <<>>, total_pages |-> -1]
NoReturn == -1
NoReq == [query |-> None, page |-> -1]
NoListing == <<"listing", 0>>
Interrupt == <<"^C">>          \* marks a prompt that ended in click.exceptions.Abort
EmptyMap == [r \in {} |-> NoListing]

Queries == {None, "games"}

Min(a, b) == IF a < b THEN a ELSE b

(* The identifier of the listing at global position g (1-based) of the service's
   result list. *)
ListingId(g) == <<"listing", g>>

NumPages(n) == (n + MAX_PAGE_SIZE - 1) \div MAX_PAGE_SIZE

(* The summaries the service returns for page p when it holds n matching listings. *)
PageSlice(n, p) ==
    LET first == p * MAX_PAGE_SIZE
        k == IF n > first THEN Min(MAX_PAGE_SIZE, n - first) ELSE 0
    IN  [i \in 1..k |-> ListingId(first + i)]

(* The responses rest_client.search can return for a page: a failure, a page of a
   result list of n listings, or an empty / null result list (whose total_pages
   field the client never reads). *)
SearchResponses(p) ==
    {[ok |-> FALSE, results_is_null |-> TRUE, results |-> <<>>, total_pages |-> 0]}
    \cup {[ok |-> TRUE, results_is_null |-> FALSE, results |-> PageSlice(n, p),
           total_pages |-> NumPages(n)] : n \in 0..MaxResults}
    \cup {[ok |-> TRUE, results_is_null |-> nul, results |-> <<>>,
           total_pages |-> t] :
              nul \in BOOLEAN, t \in 0..NumPages(MaxResults)}

(* len(results) of a response body, 0 for null. *)
ResultsLen(resp) == IF resp.results_is_null THEN 0 ELSE Len(resp.results)

(* The responses client.get_listing_info can return: ok or not. *)
DetailResponses == BOOLEAN

-----------------------------------------------------------------------------
(* Text *)

LowerChar ==
    ("A" :> "a") @@ ("B" :> "b") @@ ("C" :> "c") @@ ("D" :> "d") @@ ("E" :> "e") @@
    ("F" :> "f") @@ ("I" :> "i") @@ ("K" :> "k") @@ ("L" :> "l") @@ ("N" :> "n") @@
    ("O" :> "o") @@ ("P" :> "p") @@ ("Q" :> "q") @@ ("R" :> "r") @@ ("S" :> "s") @@
    ("T" :> "t") @@ ("U" :> "u") @@ ("V" :> "v") @@ ("W" :> "w") @@ ("X" :> "x")

(* str.lower() *)
Lower(s) == [i \in 1..Len(s) |-> IF s[i] \in DOMAIN LowerChar THEN LowerChar[s[i]] ELSE s[i]]

DigitVal ==
    ("0" :> 0) @@ ("1" :> 1) @@ ("2" :> 2) @@ ("3" :> 3) @@ ("4" :> 4) @@
    ("5" :> 5) @@ ("6" :> 6) @@ ("7" :> 7) @@ ("8" :> 8) @@ ("9" :> 9)

RECURSIVE LStrip(_)
LStrip(s) == IF s # <<>> /\ Head(s) = " " THEN LStrip(Tail(s)) ELSE s

RECURSIVE RStrip(_)
RStrip(s) == IF s # <<>> /\ s[Len(s)] = " " THEN RStrip(SubSeq(s, 1, Len(s) - 1)) ELSE s

RECURSIVE DigitsValue(_)
DigitsValue(s) == IF s = <<>> THEN 0 ELSE 10 * DigitsValue(SubSeq(s, 1, Len(s) - 1)) + DigitVal[s[Len(s)]]

(* int(text): surrounding whitespace is dropped, one sign is allowed, the rest must
   be one or more decimal digits; anything else raises ValueError. *)
int(s) ==
    LET t == RStrip(LStrip(s))
        signed == t # <<>> /\ Head(t) \in {"+", "-"}
        d == IF signed THEN Tail(t) ELSE t
    IN  IF d # <<>> /\ \A i \in 1..Len(d) : d[i] \in DOMAIN DigitVal
        THEN [exc |-> "none",
              val |-> IF signed /\ Head(t) = "-" THEN 0 - DigitsValue(d) ELSE DigitsValue(d)]
        ELSE [exc |-> "ValueError", val |-> 0]

(* What the user can type at the prompt.  click.prompt never returns the empty
   string: it asks again until something is typed. *)
Inputs ==
    { <<"n">>, <<"N">>, <<"N","e","x","t">>, <<"f">>, <<"F","O","R","W","A","R","D">>,
      <<"p">>, <<"P","r","e","v","i","o","u","s">>, <<"B">>, <<"b","a","c","K">>,
      <<"q">>, <<"Q">>, <<"C","a","n","c","e","l">>, <<"c">>, <<"C">>,
      <<"5">>, <<"1","1">>, <<"2","5">>, <<"0">>, <<"-","1">>, <<" ","5"," ">>,
      <<"x">>, <<"n","n">>, <<"5","a">>, <<" ","n">> }

-----------------------------------------------------------------------------
(* Exceptions: an exception is named by its class; a handler catches it when the
   handler's class is among the exception's classes. *)

ValueErrorBases == {"ValueError", "Exception"}
AbortBases == {"Abort", "RuntimeError", "Exception"}
ServerRequestErrorBases == {"ServerRequestError", "Exception"}

Bases(exc) ==
    CASE exc = "ValueError" -> ValueErrorBases
      [] exc = "Abort" -> AbortBases
      [] exc = "ServerRequestError" -> ServerRequestErrorBases
      [] OTHER -> {}

Catches(handler, exc) == handler \in Bases(exc)

-----------------------------------------------------------------------------
(* The functions of search.py *)

(* A formatter that records every row it renders in the dict it is handed, on top of
   the rows recorded before. *)
market_search_formatter_accumulating(search_results, page, row_map) ==
    LET rows == [i \in 1..Len(search_results) |->
                    [id |-> (page * MAX_PAGE_SIZE) + (i - 1) + 1,
                     item |-> search_results[i]]]
        fresh == [r \in {rows[i].id : i \in 1..Len(rows)} |->
                    search_results[r - (page * MAX_PAGE_SIZE)]]
    IN  [content |-> rows, row_map |-> fresh @@ row_map]

(* market_search_formatter: one table row group per summary, numbered
   current_page * MAX_PAGE_SIZE + i + 1 for i = 0, 1, ...  The dict it is handed is
   never written. *)
market_search_formatter(search_results, page, row_map) ==
    [content |-> [i \in 1..Len(search_results) |->
                     [id |-> (page * MAX_PAGE_SIZE) + (i - 1) + 1,
                      item |-> search_results[i]]],
     row_map |-> row_map]

(* A fetch that reads total_pages without looking at the result list first. *)
get_search_results_unchecked_empty(resp, page, row_map) ==
    IF resp.ok
    THEN LET items == IF resp.results_is_null THEN <<>> ELSE resp.results
             f == market_search_formatter(items, page, row_map)
         IN  [exc |-> "none", ret |-> resp.total_pages, row_map |-> f.row_map,
              rendered |-> TRUE, content |-> f.content,
              output |-> <<"page_header", "table">>]
    ELSE [exc |-> "ServerRequestError", ret |-> 0, row_map |-> row_map,
          rendered |-> FALSE, content |-> <<>>, output |-> <<>>]

(* A fetch that reports a failed response as an empty result instead of raising. *)
get_search_results_swallows_failure(resp, page, row_map) ==
    IF resp.ok /\ ~(resp.results_is_null \/ Len(resp.results) = 0)
    THEN LET f == market_search_formatter(resp.results, page, row_map)
         IN  [exc |-> "none", ret |-> resp.total_pages, row_map |-> f.row_map,
              rendered |-> TRUE, content |-> f.content,
              output |-> <<"page_header", "table">>]
    ELSE [exc |-> "none", ret |-> 0, row_map |-> row_map, rendered |-> FALSE,
          content |-> <<>>, output |-> <<"empty_listing">>]

(* get_search_results: one search request; returns 0 for a null or empty result
   list, total_pages after rendering the page otherwise, and raises
   ServerRequestError when the response is not ok. *)
get_search_results(resp, page, row_map) ==
    IF resp.ok
    THEN IF resp.results_is_null \/ Len(resp.results) = 0
         THEN [exc |-> "none", ret |-> 0, row_map |-> row_map, rendered |-> FALSE,
               content |-> <<>>, output |-> <<"empty_listing">>]
         ELSE LET f == market_search_formatter(resp.results, page, row_map)
              IN  [exc |-> "none", ret |-> resp.total_pages, row_map |-> f.row_map,
                   rendered |-> TRUE, content |-> f.content,
                   output |-> <<"page_header", "table">>]
    ELSE [exc |-> "ServerRequestError", ret |-> 0, row_map |-> row_map,
          rendered |-> FALSE, content |-> <<>>, output |-> <<>>]

ForwardAliases == { <<"n">>, <<"n","e","x","t">>, <<"f">>, <<"f","o","r","w","a","r","d">> }
BackwardAliases == { <<"p">>, <<"p","r","e","v","i","o","u","s">>, <<"b">>, <<"b","a","c","k">> }
CancelAliases == { <<"q">>, <<"c","a","n","c","e","l">>, <<"c">> }

(* get_next_page comparing the text as typed, without lower(). *)
get_next_page_case_sensitive(prompt_response, page) ==
    IF prompt_response \in ForwardAliases
    THEN [exc |-> "none", val |-> page + 1]
    ELSE IF prompt_response \in BackwardAliases
    THEN [exc |-> "none", val |-> page - 1]
    ELSE IF prompt_response \in CancelAliases
    THEN [exc |-> "Abort", val |-> 0]
    ELSE [exc |-> "none", val |-> -1]

(* get_next_page whose cancel list lacks "c". *)
get_next_page_cancel_without_c(prompt_response, page) ==
    IF Lower(prompt_response) \in ForwardAliases
    THEN [exc |-> "none", val |-> page + 1]
    ELSE IF Lower(prompt_response) \in BackwardAliases
    THEN [exc |-> "none", val |-> page - 1]
    ELSE IF Lower(prompt_response) \in CancelAliases \ { <<"c">> }
    THEN [exc |-> "Abort", val |-> 0]
    ELSE [exc |-> "none", val |-> -1]

(* get_next_page answering the current page, not -1, for any other text. *)
get_next_page_else_current(prompt_response, page) ==
    IF Lower(prompt_response) \in ForwardAliases
    THEN [exc |-> "none", val |-> page + 1]
    ELSE IF Lower(prompt_response) \in BackwardAliases
    THEN [exc |-> "none", val |-> page - 1]
    ELSE IF Lower(prompt_response) \in CancelAliases
    THEN [exc |-> "Abort", val |-> 0]
    ELSE [exc |-> "none", val |-> page]

(* get_next_page *)
get_next_page(prompt_response, page) ==
    IF Lower(prompt_response) \in ForwardAliases
    THEN [exc |-> "none", val |-> page + 1]
    ELSE IF Lower(prompt_response) \in BackwardAliases
    THEN [exc |-> "none", val |-> page - 1]
    ELSE IF Lower(prompt_response) \in CancelAliases
    THEN [exc |-> "Abort", val |-> 0]
    ELSE [exc |-> "none", val |-> -1]

(* display_search_info: one detail request; pages the record to the user, or raises
   ServerRequestError when the response is not ok. *)
display_search_info(resp_ok, listing_id) ==
    IF resp_ok
    THEN [exc |-> "none", output |-> <<"detail">>]
    ELSE [exc |-> "ServerRequestError", output |-> <<>>]

(* The range test with > where the code has >=. *)
OutOfRange_off_by_one(next_page, pages) == next_page > pages \/ next_page < 0

(* _search line 77: the target page is ignored when it is out of range. *)
OutOfRange(next_page, pages) == next_page >= pages \/ next_page < 0

(* The navigation fetch's return value assigned to total_pages. *)
TotalPagesAfterNavigation_reassigned(pages, ret) == ret

(* _search lines 80-81: the call is a statement, its return value is dropped, so
   total_pages keeps the value the initial fetch gave it. *)
TotalPagesAfterNavigation(pages, ret) == pages

(* _search line 61: the loop condition. *)
LoopCondition(page, pages) == 0 <= page /\ page < pages

NoCall == [kind |-> "none", ok |-> TRUE]

(* The except ValueError block of _search (lines 73-82), for the text s and the
   response sresp the service would give to a search request. *)
ExceptValueError(s, sresp) ==
    LET np == get_next_page(s, current_page)
        stay == [exc |-> np.exc, current_page |-> current_page,
                 total_pages |-> total_pages, row_map |-> row_id_to_model_id,
                 call |-> NoCall, rendered |-> FALSE, content |-> content,
                 output |-> <<>>, page |-> -1, listing |-> NoListing, ret |-> returned,
                 len |-> results_len]
    IN  IF np.exc # "none" THEN stay
        ELSE IF OutOfRange(np.val, total_pages) THEN stay
        ELSE LET g == get_search_results(sresp, np.val, row_id_to_model_id)
             IN  IF g.exc # "none"
                 THEN [stay EXCEPT !.exc = g.exc, !.call = [kind |-> "search", ok |-> sresp.ok],
                                   !.page = np.val]
                 ELSE [exc |-> "none", current_page |-> np.val,
                       total_pages |-> TotalPagesAfterNavigation(total_pages, g.ret),
                       row_map |-> g.row_map,
                       call |-> [kind |-> "search", ok |-> sresp.ok],
                       rendered |-> g.rendered,
                       content |-> IF g.rendered THEN g.content ELSE content,
                       output |-> g.output, page |-> np.val, listing |-> NoListing,
                       ret |-> g.ret, len |-> ResultsLen(sresp)]

(* The body of the while loop of _search (lines 62-85) once the prompt has returned
   the text s: the result of the inner try, its ValueError handler included. *)
LoopBody(s, sresp, dresp_ok) ==
    LET index == int(s)
    IN  IF index.exc = "none" /\ index.val \in DOMAIN row_id_to_model_id
        THEN LET model_id == row_id_to_model_id[index.val]
                 d == display_search_info(dresp_ok, model_id)
             IN  IF d.exc # "none" /\ Catches("ValueError", d.exc)
                 THEN ExceptValueError(s, sresp)
                 ELSE [exc |-> d.exc, current_page |-> current_page,
                       total_pages |-> total_pages, row_map |-> row_id_to_model_id,
                       call |-> [kind |-> "detail", ok |-> dresp_ok],
                       rendered |-> FALSE, content |-> content,
                       output |-> d.output, page |-> -1, listing |-> model_id,
                       ret |-> returned, len |-> results_len]
        ELSE ExceptValueError(s, sresp)

-----------------------------------------------------------------------------
(* The session *)

Init ==
    /\ pc = "start"
    /\ search_string \in Queries
    /\ current_page = 0
    /\ total_pages = 0
    /\ row_id_to_model_id = EmptyMap
    /\ prompt_resp = <<>>
    /\ returned = NoReturn
    /\ results_len = NoReturn
    /\ last_call = NoCall
    /\ content = <<>>
    /\ output = <<>>
    /\ search_req = NoReq
    /\ detail_req = NoListing
    /\ searches = 0
    /\ details = 0
    /\ prompts = 0

(* _search lines 48-59: the initial fetch of page 0 and the early return. *)
InitialFetch ==
    /\ pc = "start"
    /\ \E resp \in SearchResponses(0) :
       \E g \in {get_search_results(resp, 0, EmptyMap)} :
         LET announce == IF search_string = None THEN <<"list_all">> ELSE <<>>
         IN  /\ current_page' = 0
             /\ search_req' = [query |-> search_string, page |-> 0]
             /\ searches' = searches + 1
             /\ last_call' = [kind |-> "search", ok |-> resp.ok]
             /\ output' = announce \o g.output
             /\ IF g.exc # "none"
                THEN /\ pc' = "failed"
                     /\ row_id_to_model_id' = EmptyMap
                     /\ UNCHANGED <<total_pages, returned, results_len, content>>
                ELSE /\ total_pages' = g.ret
                     /\ row_id_to_model_id' = g.row_map
                     /\ returned' = g.ret
                     /\ results_len' = ResultsLen(resp)
                     /\ content' = g.content
                     /\ pc' = IF g.ret < 1 THEN "done"
                              ELSE IF LoopCondition(0, g.ret) THEN "prompt" ELSE "done"
    /\ UNCHANGED <<search_string, prompt_resp, detail_req, details, prompts>>

(* The page a search request would be sent for when the prompt returns s, or -1
   when the iteration sends none: the service answers only requests that are made. *)
SearchTarget(s) ==
    LET index == int(s)
        np == get_next_page(s, current_page)
    IN  IF index.exc = "none" /\ index.val \in DOMAIN row_id_to_model_id THEN -1
        ELSE IF np.exc # "none" \/ OutOfRange(np.val, total_pages) THEN -1
        ELSE np.val

(* One iteration of the while loop: the prompt returns the text s and the body
   runs to the next prompt, to the return, or to the exception that leaves _search. *)
LoopIteration ==
    /\ pc = "prompt"
    /\ prompts < MaxPrompts
    /\ \E s \in Inputs :
       \E sresp \in (IF SearchTarget(s) >= 0 THEN SearchResponses(SearchTarget(s)) ELSE {NoResp}) :
       \E dresp_ok \in (IF int(s).exc = "none" /\ int(s).val \in DOMAIN row_id_to_model_id
                        THEN DetailResponses ELSE {TRUE}) :
       \E r \in {LoopBody(s, sresp, dresp_ok)} :
             /\ prompt_resp' = s
             /\ prompts' = prompts + 1
             /\ current_page' = r.current_page
             /\ total_pages' = r.total_pages
             /\ row_id_to_model_id' = r.row_map
             /\ content' = r.content
             /\ output' = r.output
             /\ last_call' = r.call
             /\ returned' = r.ret
             /\ results_len' = r.len
             /\ searches' = IF r.call.kind = "search" THEN searches + 1 ELSE searches
             /\ search_req' = IF r.call.kind = "search"
                              THEN [query |-> search_string, page |-> r.page]
                              ELSE search_req
             /\ details' = IF r.call.kind = "detail" THEN details + 1 ELSE details
             /\ detail_req' = IF r.call.kind = "detail" THEN r.listing ELSE detail_req
             /\ pc' = IF r.exc = "none"
                      THEN IF LoopCondition(r.current_page, r.total_pages)
                           THEN "prompt" ELSE "done"
                      ELSE IF Catches("Abort", r.exc) THEN "done"
                      ELSE "failed"
    /\ UNCHANGED search_string

(* click.prompt raises click.exceptions.Abort (interrupt or end of input), which
   the handler at lines 84-85 turns into a return. *)
PromptInterrupt ==
    /\ pc = "prompt"
    /\ prompts < MaxPrompts
    /\ prompt_resp' = Interrupt
    /\ prompts' = prompts + 1
    /\ pc' = IF Catches("Abort", "Abort") THEN "done" ELSE "failed"
    /\ output' = <<>>
    /\ last_call' = NoCall
    /\ UNCHANGED <<search_string, current_page, total_pages, row_id_to_model_id,
                   returned, results_len, content, search_req, detail_req,
                   searches, details>>

Next == InitialFetch \/ LoopIteration \/ PromptInterrupt

Spec == Init /\ [][Next]_vars

TypeOK ==
    /\ pc \in {"start", "prompt", "done", "failed"}
    /\ search_string \in Queries
    /\ current_page \in Int
    /\ total_pages \in Int
    /\ searches \in Nat /\ details \in Nat /\ prompts \in 0..MaxPrompts

-----------------------------------------------------------------------------
(* The properties.  The texts a property speaks of are listed letter by letter,
   with the integer each numeric text denotes, so that no property leans on Lower
   or int. *)

ForwardInputs == { <<"n">>, <<"N">>, <<"N","e","x","t">>, <<"f">>, <<"F","O","R","W","A","R","D">> }
BackwardInputs == { <<"p">>, <<"P","r","e","v","i","o","u","s">>, <<"B">>, <<"b","a","c","K">> }
CancelInputs == { <<"q">>, <<"Q">>, <<"C","a","n","c","e","l">>, <<"c">>, <<"C">> }
IntegerInputs == { << <<"5">>, 5 >>, << <<"1","1">>, 11 >>, << <<"2","5">>, 25 >>,
                   << <<"0">>, 0 >>, << <<"-","1">>, -1 >>, << <<" ","5"," ">>, 5 >> }
OtherInputs == { <<"x">>, <<"n","n">>, <<"5","a">>, <<" ","n">> }

(* The row numbers of page p. *)
RowsOf(p) == (p * MAX_PAGE_SIZE + 1)..(p * MAX_PAGE_SIZE + MAX_PAGE_SIZE)

SearchOk == [kind |-> "search", ok |-> TRUE]
SearchFailed == [kind |-> "search", ok |-> FALSE]

(* C1: after a page p has been fetched and displayed, the row map has exactly one
   entry per summary on the page, keyed p*10+1 .. p*10+k, each mapped to the listing
   shown in that row. *)
C1_RowMapHoldsDisplayedPage ==
    (pc = "prompt" /\ last_call = SearchOk /\ results_len > 0) =>
        /\ DOMAIN row_id_to_model_id =
              (current_page * MAX_PAGE_SIZE + 1)..(current_page * MAX_PAGE_SIZE + results_len)
        /\ Len(content) = results_len
        /\ \A i \in 1..results_len :
              row_id_to_model_id[current_page * MAX_PAGE_SIZE + i] = content[i].item

(* C2: an integer input that is a row number displayed on the current page sends
   one detail request for that row's listing, sends no search request, leaves
   current_page, total_pages and the row map unchanged and, when the detail
   arrives, displays it and prompts again. *)
C2_SelectionShowsDetail ==
    [][ \A iv \in IntegerInputs : \A i \in 1..Len(content) :
          (/\ pc = "prompt" /\ prompts' = prompts + 1 /\ prompt_resp' = iv[1]
           /\ content[i].id = iv[2] /\ iv[2] \in RowsOf(current_page))
          => /\ details' = details + 1
             /\ detail_req' = content[i].item
             /\ searches' = searches
             /\ UNCHANGED <<current_page, total_pages, row_id_to_model_id>>
             /\ last_call'.ok => (output' = <<"detail">> /\ pc' = "prompt") ]_vars

(* C3: when the initial fetch of page 0 comes back with no results, the session
   is over at once: no prompt, no further request, an empty row map, for the
   absent query as for any other; and nothing happens after the session is over. *)
C3_EmptyResultEndsSession ==
    [][ /\ (pc = "start" /\ last_call' = SearchOk /\ results_len' = 0)
            => /\ pc' = "done"
               /\ prompts' = 0 /\ searches' = 1 /\ details' = 0
               /\ row_id_to_model_id' = EmptyMap
        /\ (pc = "done" /\ prompts = 0) => UNCHANGED vars ]_vars

C3_Witness ==
    pc = "done" /\ search_string = None /\ results_len = 0 /\ prompts = 0 /\ searches = 1

(* C4: a forward alias with a next page, or a backward alias with a previous page,
   sends exactly one search request, for the neighbouring page and the session's
   query; current_page moves there when the response is ok, and current_page only
   ever moves by one, in a step whose fetch has returned. *)
C4_NavigationFetchesNeighbour ==
    [][ /\ (/\ pc = "prompt" /\ prompts' = prompts + 1 /\ prompt_resp' \in ForwardInputs
            /\ current_page + 1 < total_pages)
            => /\ searches' = searches + 1 /\ details' = details
               /\ search_req' = [query |-> search_string, page |-> current_page + 1]
               /\ last_call'.kind = "search"
               /\ last_call'.ok => current_page' = current_page + 1
        /\ (/\ pc = "prompt" /\ prompts' = prompts + 1 /\ prompt_resp' \in BackwardInputs
            /\ current_page >= 1)
            => /\ searches' = searches + 1 /\ details' = details
               /\ search_req' = [query |-> search_string, page |-> current_page - 1]
               /\ last_call'.kind = "search"
               /\ last_call'.ok => current_page' = current_page - 1
        /\ current_page' # current_page
            => /\ current_page' \in {current_page - 1, current_page + 1}
               /\ last_call' = SearchOk /\ searches' = searches + 1
               /\ search_req'.page = current_page'
               /\ prompt_resp' \in ForwardInputs \cup BackwardInputs ]_vars

C4_Witness ==
    /\ pc = "prompt" /\ prompt_resp \in BackwardInputs /\ current_page = 0
    /\ last_call = SearchOk /\ searches = 3 /\ prompts = 2

(* C5: a backward alias on page 0, or a forward alias on the last page, changes
   nothing: no request, nothing written, and the session prompts again. *)
C5_OutOfRangeNavigationIgnored ==
    [][ (/\ pc = "prompt" /\ prompts' = prompts + 1
         /\ \/ (prompt_resp' \in BackwardInputs /\ current_page = 0)
            \/ (prompt_resp' \in ForwardInputs /\ current_page + 1 >= total_pages))
        => /\ UNCHANGED <<current_page, total_pages, row_id_to_model_id, content,
                          searches, details, search_req, detail_req>>
           /\ last_call'.kind = "none"
           /\ output' = <<>>
           /\ pc' = "prompt" ]_vars

C5_Witness ==
    /\ pc = "prompt" /\ prompt_resp \in ForwardInputs /\ last_call.kind = "none"
    /\ current_page >= 1 /\ current_page = total_pages - 1 /\ searches = 2

(* C6: a cancel alias in any letter case, or an abort raised by the prompt, ends
   the session from any page with no request sent, and nothing happens afterwards. *)
C6_CancelEndsSession ==
    [][ /\ (/\ pc = "prompt" /\ prompts' = prompts + 1
            /\ prompt_resp' \in CancelInputs \cup {Interrupt})
            => /\ pc' = "done"
               /\ UNCHANGED <<searches, details, current_page, total_pages>>
               /\ last_call'.kind = "none"
        /\ (pc = "done" /\ prompts > 0) => UNCHANGED vars ]_vars

C6_Witness ==
    pc = "done" /\ prompt_resp = <<"C">> /\ current_page = 2 /\ total_pages = 3

(* C7: after a page change no row number of the page left behind is a key of the
   row map, and entering a number that is not a row of the current page sends no
   detail request. *)
C7_NoStaleRows ==
    [][ /\ current_page' # current_page
            => \A r \in RowsOf(current_page) : r \notin DOMAIN row_id_to_model_id'
        /\ \A iv \in IntegerInputs :
            (/\ pc = "prompt" /\ prompts' = prompts + 1 /\ prompt_resp' = iv[1]
             /\ iv[2] \notin RowsOf(current_page))
            => (details' = details /\ last_call'.kind = "none") ]_vars

C7_Witness ==
    /\ pc = "prompt" /\ current_page = 1 /\ prompt_resp = <<"5">> /\ prompts = 2
    /\ Len(content) > 0 /\ content[1].id = 11 /\ details = 0

(* C8: an integer that is not a key of the row map, or a text that is neither an
   integer nor a keyword, changes nothing: no request, nothing displayed, and the
   session prompts again. *)
C8_UnknownInputIgnored ==
    [][ (/\ pc = "prompt" /\ prompts' = prompts + 1
         /\ \/ \E iv \in IntegerInputs :
                  prompt_resp' = iv[1] /\ iv[2] \notin DOMAIN row_id_to_model_id
            \/ prompt_resp' \in OtherInputs)
        => /\ UNCHANGED <<current_page, total_pages, row_id_to_model_id, content,
                          searches, details, search_req, detail_req>>
           /\ last_call'.kind = "none"
           /\ output' = <<>>
           /\ pc' = "prompt" ]_vars

C8_Witness ==
    /\ pc = "prompt" /\ prompt_resp = <<"2","5">> /\ last_call.kind = "none"
    /\ current_page = 1 /\ prompts = 2

(* C9: an endpoint call whose response is not ok is made once and ends the
   session with the request-failed error: current_page, total_pages and the row
   map keep their values and nothing happens afterwards. *)
C9_FailedCallEndsSession ==
    [][ /\ (pc \in {"start", "prompt"} /\ pc' # "start" /\ ~last_call'.ok
            /\ (searches' # searches \/ details' # details))
            => /\ pc' = "failed"
               /\ searches' + details' = searches + details + 1
               /\ UNCHANGED <<current_page, total_pages, row_id_to_model_id, content>>
               /\ output' \in { <<>>, <<"list_all">> }
        /\ pc = "failed" => UNCHANGED vars ]_vars

C9_Witness ==
    /\ pc = "failed" /\ last_call = SearchFailed /\ current_page = 1
    /\ search_req.page = 2 /\ searches = 3

(* C10: total_pages is set by the initial fetch and never again; at every prompt
   0 <= current_page < total_pages; and a navigation fetch that comes back empty
   or with a smaller total still moves current_page to the target and prompts. *)
C10_TotalPagesFixed ==
    [][ /\ pc # "start" => total_pages' = total_pages
        /\ (pc = "start" /\ last_call' = SearchOk) => total_pages' = returned'
        /\ pc' = "prompt" => (0 <= current_page' /\ current_page' < total_pages')
        /\ (/\ pc = "prompt" /\ searches' = searches + 1 /\ last_call' = SearchOk
            /\ (results_len' = 0 \/ returned' < total_pages))
            => /\ current_page' = search_req'.page
               /\ current_page' # current_page
               /\ pc' = "prompt" ]_vars

C10_Witness ==
    /\ pc = "prompt" /\ last_call = SearchOk /\ results_len = 0 /\ returned = 0
    /\ current_page = 1 /\ total_pages = 3

====
